---------------------------- MODULE Spec2Model ----------------------------
(***************************************************************************)
(* Model of hw_8.py: the console address book (Field / Phone / Birthday / *)
(* Record / AddressBook, the input_error decorator, the command handlers  *)
(* and the main loop).                                                     *)
(*                                                                         *)
(* A string is a sequence of one-character strings.  A date is a record   *)
(* [year, month, day]; a datetime adds the time of day in seconds.  An    *)
(* exception is a record [exc, msg]; NoExc means "returned normally".      *)
(* Python's None is the empty sequence and Some(x) the one-element one.    *)
(***************************************************************************)
EXTENDS Integers, Sequences, FiniteSets, TLC

VARIABLES data, session, op, args, out

vars == <<data, session, op, args, out>>

-----------------------------------------------------------------------------
(* Bounds and input domains *)

MaxPhones == 2

Names == {"ann", "bob"}

PhoneLen == 10

DefaultDays == 7

SecondsPerDay == 86400

None == <<>>

Some(x) == <<x>>

\* characters: ASCII decimal digits, a letter, and SUPERSCRIPT TWO (U+00B2)
DecimalDigits == {"0", "1", "2", "3", "4", "5", "6", "7", "8", "9"}

\* characters for which str.isdigit() is true: the decimal digits and the
\* characters of Numeric_Type=Digit such as the superscript digits
UnicodeDigits == DecimalDigits \cup {"²"}

LastChars == {"1", "a", "²"}

PhoneLens == {PhoneLen - 1, PhoneLen, PhoneLen + 1}

\* a text of n characters: n-1 zeros followed by the character c
PhoneText(n, c) == [i \in 1..n |-> IF i = n THEN c ELSE "0"]

\* phone texts typed by the user: every last character at the right length,
\* and a decimal text at every length
PhoneInputs ==
    { PhoneText(PhoneLen, c) : c \in LastChars } \cup { PhoneText(n, "1") : n \in PhoneLens }

Phone1 == PhoneText(PhoneLen, "1")

Date(y, m, d) == [year |-> y, month |-> m, day |-> d]

\* a date text "d.m.y" (sep = ".") or with another separator
DateText(s, d, m, y) == [sep |-> s, d |-> d, m |-> m, y |-> y]

-----------------------------------------------------------------------------
(* datetime: the proleptic Gregorian calendar *)

IsLeap(y) == (y % 4 = 0) /\ ((y % 100 # 0) \/ (y % 400 = 0))

DaysInMonth(y, m) ==
    IF m = 2 THEN (IF IsLeap(y) THEN 29 ELSE 28)
    ELSE IF m \in {4, 6, 9, 11} THEN 30 ELSE 31

RECURSIVE DaysBeforeMonth(_, _)
DaysBeforeMonth(y, m) ==
    IF m <= 1 THEN 0 ELSE DaysBeforeMonth(y, m - 1) + DaysInMonth(y, m - 1)

DaysBeforeYear(y) ==
    (y - 1) * 365 + ((y - 1) \div 4) - ((y - 1) \div 100) + ((y - 1) \div 400)

\* date.toordinal(): 1 for 0001-01-01
ToOrdinal(dt) == DaysBeforeYear(dt.year) + DaysBeforeMonth(dt.year, dt.month) + dt.day

\* date.weekday(): Monday = 0 ... Sunday = 6
Weekday(dt) == (ToOrdinal(dt) + 6) % 7

\* datetime(year, month, day): ValueError for a day the month does not have
ValidDate(y, m, d) ==
    /\ y \in 1..9999
    /\ m \in 1..12
    /\ d \in 1..DaysInMonth(y, m)

NextDay(dt) ==
    IF dt.day < DaysInMonth(dt.year, dt.month) THEN Date(dt.year, dt.month, dt.day + 1)
    ELSE IF dt.month < 12 THEN Date(dt.year, dt.month + 1, 1)
    ELSE Date(dt.year + 1, 1, 1)

\* dt + timedelta(days=k), k >= 0
RECURSIVE AddDays(_, _)
AddDays(dt, k) == IF k = 0 THEN dt ELSE AddDays(NextDay(dt), k - 1)

-----------------------------------------------------------------------------
(* Exceptions *)

NoExc == [exc |-> "", msg |-> ""]

ValueError(m) == [exc |-> "ValueError", msg |-> m]

KeyError(m) == [exc |-> "KeyError", msg |-> m]

IndexError == [exc |-> "IndexError", msg |-> "list index out of range"]

AttributeError(m) == [exc |-> "AttributeError", msg |-> m]

PhoneFormatMsg == "Invalid phone number format. Phone number should contain 10 digits."

BirthdayFormatMsg == "Invalid date format. Use DD.MM.YYYY"

UnpackMsg == "not enough values to unpack"

TooManyMsg == "too many values to unpack"

DayRangeMsg == "day is out of range for month"

\* the substring test `word in error_message` on the messages that can occur
Contains(m, word) ==
    \/ word = "phone" /\ m = PhoneFormatMsg
    \/ word = "date" /\ m = BirthdayFormatMsg

-----------------------------------------------------------------------------
(* Field classes *)

\* str.isdigit(): non-empty and every character is a digit character
isdigit(s) == Len(s) > 0 /\ \A i \in 1..Len(s) : s[i] \in UnicodeDigits

\* Phone.validate
validate(value) ==
    IF ~isdigit(value) \/ Len(value) # PhoneLen
    THEN ValueError(PhoneFormatMsg)
    ELSE NoExc

\* Phone(value): the stored phone is its value
Phone(value) == [exc |-> validate(value), value |-> value]

\* datetime.strptime(value, "%d.%m.%Y").date()
strptime(text) ==
    IF text.sep = "." /\ ValidDate(text.y, text.m, text.d)
    THEN [exc |-> NoExc, value |-> Date(text.y, text.m, text.d)]
    ELSE [exc |-> ValueError("does not match format"), value |-> Date(1, 1, 1)]

\* Birthday(value)
Birthday(text) ==
    LET p == strptime(text)
    IN  IF p.exc = NoExc
        THEN [exc |-> NoExc, value |-> [value |-> text, date |-> p.value]]
        ELSE [exc |-> ValueError("Invalid date format. Should be DD-MM-YYYY"),
              value |-> [value |-> text, date |-> p.value]]

-----------------------------------------------------------------------------
(* Record *)

Record(name) == [name |-> name, phones |-> <<>>, birthday |-> None]

\* add_phone with the new phone put first instead of last
add_phone_prepend(record, phone) ==
    LET p == Phone(phone)
    IN  IF p.exc = NoExc
        THEN [exc |-> NoExc, record |-> [record EXCEPT !.phones = <<p.value>> \o @]]
        ELSE [exc |-> p.exc, record |-> record]

\* Record.add_phone: the record is left as it was when Phone() raises
add_phone(record, phone) ==
    LET p == Phone(phone)
    IN  IF p.exc = NoExc
        THEN [exc |-> NoExc, record |-> [record EXCEPT !.phones = Append(@, p.value)]]
        ELSE [exc |-> p.exc, record |-> record]

\* Record.remove_phone: drops every entry equal to phone
remove_phone(record, phone) ==
    [record EXCEPT !.phones = SelectSeq(@, LAMBDA p : p # phone)]

\* Record.edit_phone: remove, then add; a raise in add keeps the removal
edit_phone(record, old_phone, new_phone) ==
    add_phone(remove_phone(record, old_phone), new_phone)

\* Record.add_birthday: assigns only when Birthday() returned
Record_add_birthday(record, text) ==
    LET b == Birthday(text)
    IN  IF b.exc = NoExc
        THEN [exc |-> NoExc, record |-> [record EXCEPT !.birthday = Some(b.value)]]
        ELSE [exc |-> ValueError(BirthdayFormatMsg), record |-> record]

-----------------------------------------------------------------------------
(* AddressBook: an insertion-ordered dict, as the sequence of its values *)

KeysOf(d) == { d[i].name : i \in 1..Len(d) }

IndexOf(d, name) == CHOOSE i \in 1..Len(d) : d[i].name = name

\* AddressBook.find: dict.get(name)
find(d, name) == IF name \in KeysOf(d) THEN Some(d[IndexOf(d, name)]) ELSE None

\* self.data[key] = record: an existing key keeps its position
add_record(d, record) ==
    IF record.name \in KeysOf(d)
    THEN [d EXCEPT ![IndexOf(d, record.name)] = record]
    ELSE Append(d, record)

\* delete with the comparison inverted: keeps the named record only
delete_inverted(d, name) ==
    IF \E i \in 1..Len(d) : d[i].name = name
    THEN SelectSeq(d, LAMBDA r : r.name = name)
    ELSE d

\* AddressBook.delete
delete(d, name) ==
    IF name \in KeysOf(d)
    THEN SelectSeq(d, LAMBDA r : r.name # name)
    ELSE d

-----------------------------------------------------------------------------
(* AddressBook.get_upcoming_birthdays *)

\* datetime `<`: by date, then by time of day
Before(d1, tod1, d2, tod2) ==
    \/ ToOrdinal(d1) < ToOrdinal(d2)
    \/ ToOrdinal(d1) = ToOrdinal(d2) /\ tod1 < tod2

\* lines 81-84: this year's occurrence at midnight, next year's when that
\* moment is before `today`; datetime() raises for a day the month lacks
Occurrence(today, bdate) ==
    IF ~ValidDate(today.date.year, bdate.month, bdate.day)
    THEN [exc |-> ValueError(DayRangeMsg), value |-> today.date]
    ELSE LET this == Date(today.date.year, bdate.month, bdate.day)
         IN  IF Before(this, 0, today.date, today.tod)
             THEN IF ~ValidDate(today.date.year + 1, bdate.month, bdate.day)
                  THEN [exc |-> ValueError(DayRangeMsg), value |-> today.date]
                  ELSE [exc |-> NoExc,
                        value |-> Date(today.date.year + 1, bdate.month, bdate.day)]
             ELSE [exc |-> NoExc, value |-> this]

\* line 86: (birthday_this_year - today).days, the floor of the difference
DeltaDays(occ, today) ==
    ((ToOrdinal(occ) - ToOrdinal(today.date)) * SecondsPerDay - today.tod) \div SecondsPerDay

\* the shift with a Saturday moved by one day only
WeekendShift_OneDay(dt) ==
    IF Weekday(dt) >= 5 THEN AddDays(dt, 1) ELSE dt

\* lines 89-93
WeekendShift(dt) ==
    IF Weekday(dt) >= 5
    THEN IF Weekday(dt) = 5 THEN AddDays(dt, 2) ELSE AddDays(dt, 1)
    ELSE dt

\* strftime("%d.%m.%Y"): the day, month and year fields of the text
strftime(dt) == DateText(".", dt.day, dt.month, dt.year)

\* the loop of lines 79-95 from record i on; a raise abandons the list
RECURSIVE Upcoming(_, _, _, _, _)
Upcoming(d, i, today, days, acc) ==
    IF i > Len(d) THEN [exc |-> NoExc, value |-> acc]
    ELSE IF d[i].birthday = None THEN Upcoming(d, i + 1, today, days, acc)
    ELSE LET occ == Occurrence(today, d[i].birthday[1].date)
         IN  IF occ.exc # NoExc THEN [exc |-> occ.exc, value |-> <<>>]
             ELSE IF 0 <= DeltaDays(occ.value, today) /\ DeltaDays(occ.value, today) <= days
             THEN Upcoming(d, i + 1, today, days,
                      Append(acc, [name |-> d[i].name,
                                   birthday |-> strftime(WeekendShift(occ.value))]))
             ELSE Upcoming(d, i + 1, today, days, acc)

get_upcoming_birthdays(d, today, days) == Upcoming(d, 1, today, days, <<>>)

-----------------------------------------------------------------------------
(* input_error and the replies *)

Reply(text, items) == [exc |-> "", text |-> text, items |-> items]

Raised(e) == [exc |-> e.exc, text |-> e.msg, items |-> <<>>]

ExistsMsg == "Contact already exists. Please try a different name or use the 'change' command to update."

BadPhoneMsg == "Invalid phone number format. Phone number should contain exactly 10 digits."

BadDateMsg == "Invalid date format. Please use the format DD.MM.YYYY."

ErrorMsg == "An error occurred. Please try again."

EnterNameMsg == "Please enter a name to show the phone number."

NotFoundMsg == "Contact not found. Please enter a valid name."

ErrorMessages == {ExistsMsg, BadPhoneMsg, BadDateMsg, ErrorMsg, EnterNameMsg, NotFoundMsg}

\* the wrapper of input_error applied to a result [exc, value]
input_error(r) ==
    IF r.exc = NoExc THEN r.value
    ELSE IF r.exc.exc = "KeyError" THEN Reply(ExistsMsg, <<>>)
    ELSE IF r.exc.exc = "ValueError"
         THEN IF Contains(r.exc.msg, "phone") THEN Reply(BadPhoneMsg, <<>>)
              ELSE IF Contains(r.exc.msg, "date") THEN Reply(BadDateMsg, <<>>)
              ELSE Reply(ErrorMsg, <<>>)
    ELSE IF r.exc.exc = "IndexError" THEN Reply(EnterNameMsg, <<>>)
    ELSE IF r.exc.exc = "AttributeError" THEN Reply(NotFoundMsg, <<>>)
    ELSE Raised(r.exc)

-----------------------------------------------------------------------------
(* Command handlers: the undecorated bodies.  Each returns the exception  *)
(* or the returned value, and the book as the body left it.                *)

Result(e, v, d) == [exc |-> e, value |-> v, data |-> d]

\* a Record is mutated in place: the book holds the same object
Mutate(d, record) == [d EXCEPT ![IndexOf(d, record.name)] = record]

add_contact_body(a, d) ==
    IF Len(a) < 2 THEN Result(ValueError(UnpackMsg), Reply("", <<>>), d)
    ELSE LET name == a[1]
             phone == a[2]
             found == find(d, name)
             record == IF found = None THEN Record(name) ELSE found[1]
             d1 == IF found = None THEN add_record(d, record) ELSE d
             message == IF found = None THEN "Contact added." ELSE "Contact updated."
         IN  IF Len(phone) > 0
             THEN LET r == add_phone(record, phone)
                  IN  Result(r.exc, Reply(message, <<>>), Mutate(d1, r.record))
             ELSE Result(NoExc, Reply(message, <<>>), d1)

change_contact_body(a, d) ==
    IF Len(a) < 2 THEN Result(ValueError(UnpackMsg), Reply("", <<>>), d)
    ELSE IF Len(a) > 2 THEN Result(ValueError(TooManyMsg), Reply("", <<>>), d)
    ELSE LET name == a[1]
             new_phone == a[2]
             found == find(d, name)
         IN  IF found # None
             THEN IF Len(found[1].phones) = 0
                  THEN Result(IndexError, Reply("", <<>>), d)
                  ELSE LET r == edit_phone(found[1], found[1].phones[1], new_phone)
                       IN  Result(r.exc,
                                  Reply("Contact phone number updated successfully.", <<>>),
                                  Mutate(d, r.record))
             ELSE Result(KeyError("Contact not found."), Reply("", <<>>), d)

show_phones_body(a, d) ==
    IF Len(a) < 1 THEN Result(IndexError, Reply("", <<>>), d)
    ELSE LET found == find(d, a[1])
         IN  IF found # None
             THEN Result(NoExc, Reply("; ", found[1].phones), d)
             ELSE Result(AttributeError("Contact not found."), Reply("", <<>>), d)

show_all_body(d) ==
    IF Len(d) > 0 THEN Result(NoExc, Reply("\n", d), d)
    ELSE Result(NoExc, Reply("Address book is empty.", <<>>), d)

add_birthday_body(a, d) ==
    IF Len(a) < 2 THEN Result(IndexError, Reply("", <<>>), d)
    ELSE LET found == find(d, a[1])
         IN  IF found # None
             THEN LET r == Record_add_birthday(found[1], a[2])
                  IN  Result(r.exc, Reply("Birthday was added.", <<>>), Mutate(d, r.record))
             ELSE Result(KeyError(""), Reply("", <<>>), d)

show_birthday_body(a, d) ==
    IF Len(a) < 1 THEN Result(IndexError, Reply("", <<>>), d)
    ELSE LET found == find(d, a[1])
         IN  IF found = None
             THEN Result(AttributeError("'NoneType' object has no attribute 'birthday'"),
                         Reply("", <<>>), d)
             ELSE IF found[1].birthday = None
             THEN Result(NoExc, Reply("None", <<>>), d)
             ELSE Result(NoExc, Reply("str", <<found[1].birthday[1].value>>), d)

birthdays_body(d, today) ==
    LET u == get_upcoming_birthdays(d, today, DefaultDays)
    IN  IF u.exc # NoExc THEN Result(u.exc, Reply("", <<>>), d)
        ELSE IF Len(u.value) > 0 THEN Result(NoExc, Reply("\n", u.value), d)
        ELSE Result(NoExc, Reply("No upcoming birthdays in the next week.", <<>>), d)

-----------------------------------------------------------------------------
(* State machine *)

Init ==
    /\ data = <<>>
    /\ session = "running"
    /\ op = "load_data"
    /\ args = <<>>
    /\ out = Reply("Welcome to the assistant bot!", <<>>)

WithinBounds(d) == \A i \in 1..Len(d) : Len(d[i].phones) <= MaxPhones

\* a decorated handler ran: its effect on the book and the value it returned
Handled(name, a, r) ==
    /\ WithinBounds(r.data)
    /\ data' = r.data
    /\ out' = input_error(r)
    /\ op' = name
    /\ args' = a
    /\ UNCHANGED session

add_contact(a) == Handled("add_contact", a, add_contact_body(a, data))

change_contact(a) == Handled("change_contact", a, change_contact_body(a, data))

show_phones(a) == Handled("show_phones", a, show_phones_body(a, data))

show_all == Handled("show_all", <<>>, show_all_body(data))

add_birthday(a) == Handled("add_birthday", a, add_birthday_body(a, data))

show_birthday(a) == Handled("show_birthday", a, show_birthday_body(a, data))

\* `today` is the value datetime.today() returns during the call
birthdays(a, today) == Handled("birthdays", <<today>>, birthdays_body(data, today))

\* the lines of main that do not call a handler
Plain(name, text) ==
    /\ op' = name
    /\ args' = <<>>
    /\ out' = Reply(text, <<>>)
    /\ UNCHANGED <<data, session>>

\* parse_input raises ValueError on a line without tokens; main does not catch it
ParseFails ==
    /\ session' = "crashed"
    /\ op' = "parse_input"
    /\ args' = <<>>
    /\ out' = Raised(ValueError(UnpackMsg))
    /\ UNCHANGED data

Close ==
    /\ session' = "closed"
    /\ op' = "close"
    /\ args' = <<>>
    /\ out' = Reply("Good bye!", <<>>)
    /\ UNCHANGED data

\* one iteration of the loop of main on the tokens of the line read
Main(line, today) ==
    /\ session = "running"
    /\ IF Len(line) = 0 THEN ParseFails
       ELSE LET command == line[1]
                a == Tail(line)
            IN  IF command \in {"close", "exit"} THEN Close
                ELSE IF command = "hello" THEN Plain("hello", "How can I help you?")
                ELSE IF command = "add" THEN add_contact(a)
                ELSE IF command = "change" THEN change_contact(a)
                ELSE IF command = "phone" THEN show_phones(a)
                ELSE IF command = "all" THEN show_all
                ELSE IF command = "add-birthday" THEN add_birthday(a)
                ELSE IF command = "show-birthday" THEN show_birthday(a)
                ELSE IF command = "birthdays" THEN birthdays(a, today)
                ELSE Plain("invalid", "Invalid command.")

\* direct calls of the AddressBook methods
Delete(name) ==
    /\ data' = delete(data, name)
    /\ out' = Reply("return", <<>>)
    /\ op' = "delete"
    /\ args' = <<name>>
    /\ UNCHANGED session

GetUpcomingBirthdays(today, days) ==
    LET u == get_upcoming_birthdays(data, today, days)
    IN  /\ out' = IF u.exc = NoExc THEN Reply("return", u.value) ELSE Raised(u.exc)
        /\ op' = "get_upcoming_birthdays"
        /\ args' = <<today, days>>
        /\ UNCHANGED <<data, session>>

-----------------------------------------------------------------------------
(* The session: every line the user can type *)

Moment(y, m, d, tod) == [date |-> Date(y, m, d), tod |-> tod]

Noon == 12 * 3600

\* birthday texts typed in the session
SessionBirthdays ==
    { DateText(".", 8, 6, 1990), DateText(".", 29, 2, 2000), DateText(".", 30, 2, 1990) }

SessionClock == { Moment(2024, 6, 1, Noon), Moment(2023, 2, 27, 0) }

Epoch == Moment(1970, 1, 1, 0)

Next ==
    \/ Main(<<>>, Epoch)
    \/ \E c \in {"close", "exit", "hello", "all", "list"} : Main(<<c>>, Epoch)
    \/ \E c \in {"add", "change", "phone", "add-birthday", "show-birthday"} :
          \/ Main(<<c>>, Epoch)
          \/ \E n \in Names : Main(<<c, n>>, Epoch)
    \/ \E n \in Names, p \in PhoneInputs : Main(<<"add", n, p>>, Epoch)
    \/ \E n \in Names, p \in PhoneInputs : Main(<<"change", n, p>>, Epoch)
    \/ \E n \in Names : Main(<<"change", n, Phone1, Phone1>>, Epoch)
    \/ \E n \in Names, b \in SessionBirthdays : Main(<<"add-birthday", n, b>>, Epoch)
    \/ \E t \in SessionClock : Main(<<"birthdays">>, t)

Spec == Init /\ [][Next]_vars

-----------------------------------------------------------------------------
(* The address book called directly: records built by the handlers, then  *)
(* delete and get_upcoming_birthdays with any window and clock reading.   *)

BookBirthdays ==
    { DateText(".", 31, 5, 1990), DateText(".", 1, 6, 1990), DateText(".", 2, 6, 1990),
      DateText(".", 6, 6, 1990), DateText(".", 8, 6, 1990), DateText(".", 9, 6, 1990),
      DateText(".", 29, 2, 2000) }

BookClock ==
    { Moment(2024, 6, 1, 0), Moment(2024, 6, 1, Noon),
      Moment(2024, 2, 26, Noon), Moment(2023, 2, 27, Noon) }

Windows == {0, 1, DefaultDays}

NextBook ==
    \/ \E n \in Names : add_contact(<<n, Phone1>>)
    \/ \E n \in Names, b \in BookBirthdays : add_birthday(<<n, b>>)
    \/ \E n \in Names : Delete(n)
    \/ \E t \in BookClock, days \in Windows : GetUpcomingBirthdays(t, days)
    \/ \E t \in BookClock : birthdays(<<>>, t)

SpecBook == Init /\ [][NextBook]_vars

\* the same calls with the clock read at midnight only
MidnightClock == { Moment(2024, 6, 1, 0), Moment(2023, 2, 27, 0) }

NextMidnight ==
    \/ \E n \in Names : add_contact(<<n, Phone1>>)
    \/ \E n \in Names, b \in BookBirthdays : add_birthday(<<n, b>>)
    \/ \E n \in Names : Delete(n)
    \/ \E t \in MidnightClock, days \in Windows : GetUpcomingBirthdays(t, days)
    \/ \E t \in MidnightClock : birthdays(<<>>, t)

SpecMidnight == Init /\ [][NextMidnight]_vars

-----------------------------------------------------------------------------
(* Vocabulary of the properties *)

\* a text of exactly ten decimal digits
TenDecimalDigits(s) == Len(s) = PhoneLen /\ \A i \in 1..Len(s) : s[i] \in DecimalDigits

PhonesOf(d, name) == IF name \in KeysOf(d) THEN d[IndexOf(d, name)].phones ELSE <<>>

\* get_upcoming_birthdays has returned its list (directly or to `birthdays`)
QueryReturned ==
    \/ op = "get_upcoming_birthdays" /\ out.exc = ""
    \/ op = "birthdays" /\ out.exc = "" /\ out.text \in {"\n", "No upcoming birthdays in the next week."}

QueryToday == args[1]

QueryDays == IF op = "get_upcoming_birthdays" THEN args[2] ELSE DefaultDays

Listed(name) == \E j \in 1..Len(out.items) : out.items[j].name = name

\* the calendar dates on which a birthday occurs in this year and the next,
\* not before the date `day`
ComingOccurrences(day, bdate) ==
    { Date(y, bdate.month, bdate.day) : y \in { yy \in {day.year, day.year + 1} :
          /\ ValidDate(yy, bdate.month, bdate.day)
          /\ ToOrdinal(Date(yy, bdate.month, bdate.day)) >= ToOrdinal(day) } }

\* calendar days from `day` to the next occurrence (when there is one)
DaysUntilNext(day, bdate) ==
    LET cs == { ToOrdinal(o) - ToOrdinal(day) : o \in ComingOccurrences(day, bdate) }
    IN  CHOOSE k \in cs : \A k2 \in cs : k <= k2

TextDate(text) == Date(text.y, text.m, text.d)

-----------------------------------------------------------------------------
(* Properties *)

\* C1: a record whose next birthday is exactly N calendar days after today's
\* date is listed by get_upcoming_birthdays(N), and one whose next birthday
\* is exactly N+1 days after today's date is not.
C1_WindowBoundary ==
    QueryReturned =>
        \A i \in 1..Len(data) :
            (data[i].birthday # None
               /\ ComingOccurrences(QueryToday.date, data[i].birthday[1].date) # {}) =>
                LET k == DaysUntilNext(QueryToday.date, data[i].birthday[1].date)
                IN  /\ (k = QueryDays => Listed(data[i].name))
                    /\ (k = QueryDays + 1 => ~Listed(data[i].name))

\* C2: a record whose birthday falls on today's month and day is listed with
\* this year's occurrence (today, moved off a weekend), and next year's
\* occurrence is used only when this year's date is strictly before today's.
C2_BirthdayToday ==
    QueryReturned =>
        \A i \in 1..Len(data) :
            data[i].birthday # None =>
                LET b == data[i].birthday[1].date
                    day == QueryToday.date
                IN  /\ (b.month = day.month /\ b.day = day.day) =>
                          \E j \in 1..Len(out.items) :
                              /\ out.items[j].name = data[i].name
                              /\ ToOrdinal(TextDate(out.items[j].birthday)) - ToOrdinal(day)
                                    \in 0..2
                    /\ (Occurrence(QueryToday, b).exc = NoExc
                          /\ Occurrence(QueryToday, b).value.year = day.year + 1) =>
                          ToOrdinal(Date(day.year, b.month, b.day)) < ToOrdinal(day)

\* C3: every reported date is the birthday's occurrence when that is a
\* Monday-Friday, two days later when it is a Saturday and one day later when
\* it is a Sunday; so every reported date is a Monday-Friday.
C3_WeekendShift ==
    QueryReturned =>
        \A j \in 1..Len(out.items) :
            LET reported == TextDate(out.items[j].birthday)
                b == find(data, out.items[j].name)[1].birthday[1].date
            IN  /\ Weekday(reported) \in 0..4
                /\ \E occ \in ComingOccurrences(QueryToday.date, b) :
                      \/ Weekday(occ) \in 0..4 /\ reported = occ
                      \/ Weekday(occ) = 5 /\ ToOrdinal(reported) = ToOrdinal(occ) + 2
                      \/ Weekday(occ) = 6 /\ ToOrdinal(reported) = ToOrdinal(occ) + 1

\* C3 witness: a Saturday birthday inside the window is reported on the
\* Monday after it, more than N days after today
C3_Witness ==
    /\ op = "get_upcoming_birthdays"
    /\ out.exc = ""
    /\ \E j \in 1..Len(out.items) :
          LET reported == TextDate(out.items[j].birthday)
              b == find(data, out.items[j].name)[1].birthday[1].date
          IN  /\ ToOrdinal(reported) - ToOrdinal(QueryToday.date) > QueryDays
              /\ \E occ \in ComingOccurrences(QueryToday.date, b) :
                    Weekday(occ) = 5 /\ ToOrdinal(reported) = ToOrdinal(occ) + 2

\* C4: a phone is accepted exactly when it is ten decimal digits, so every
\* stored phone is ten decimal digits.
C4_PhonesTenDigits ==
    /\ \A i \in 1..Len(data) : \A k \in 1..Len(data[i].phones) :
          TenDecimalDigits(data[i].phones[k])
    /\ (op = "add_contact" /\ Len(args) >= 2) =>
          IF TenDecimalDigits(args[2])
          THEN out.text \in {"Contact added.", "Contact updated."}
          ELSE out.text = BadPhoneMsg

\* C5: every line is answered with a message and the loop goes on; it ends
\* only on close or exit, and no error escapes it.
C5_LoopSurvives ==
    /\ session # "crashed"
    /\ out.exc = ""
    /\ session = "closed" => op = "close"

\* C6: after `add name phone` with a valid phone the record of that name
\* holds the phones it held before, in order, followed by the new phone.
C6_AddAppends ==
    [][(op' = "add_contact" /\ Len(args') >= 2 /\ TenDecimalDigits(args'[2])) =>
          /\ find(data', args'[1]) # None
          /\ PhonesOf(data', args'[1]) = PhonesOf(data, args'[1]) \o <<args'[2]>>
          /\ out'.text \in {"Contact added.", "Contact updated."}]_vars

\* C6 witness: a valid phone was added to a contact that already had one
C6_Witness ==
    /\ op = "add_contact"
    /\ out.text = "Contact updated."
    /\ TenDecimalDigits(args[2])
    /\ Len(PhonesOf(data, args[1])) >= 2
    /\ PhonesOf(data, args[1])[Len(PhonesOf(data, args[1]))] = args[2]
    /\ PhonesOf(data, args[1])[1] # args[2]

\* C7: delete of an absent name raises nothing and changes nothing; delete of
\* a present name removes that entry only and leaves the other records as
\* they were, in their order.
C7_DeleteFrame ==
    [][op' = "delete" =>
          /\ out'.exc = ""
          /\ IF args'[1] \in KeysOf(data)
             THEN /\ KeysOf(data') = KeysOf(data) \ {args'[1]}
                  /\ Len(data') = Len(data) - 1
                  /\ \A i \in 1..Len(data), j \in 1..Len(data) :
                        (i < j /\ data[i].name # args'[1] /\ data[j].name # args'[1]) =>
                            IndexOf(data', data[i].name) < IndexOf(data', data[j].name)
                  /\ \A n \in KeysOf(data') : find(data', n) = find(data, n)
             ELSE data' = data]_vars

\* C7 witness: one of two records was deleted and the other is still there
C7_Witness ==
    /\ op = "delete"
    /\ Len(data) = 1
    /\ args[1] \notin KeysOf(data)
    /\ data[1].birthday # None

\* C8: get_upcoming_birthdays returns exactly one pair for each record whose
\* next birthday lies in the window, in book order, whatever other records
\* the book holds.
C8_ExactlyQualifying ==
    op = "get_upcoming_birthdays" =>
        [j \in 1..Len(out.items) |-> out.items[j].name]
              = [j \in 1..Len(SelectSeq(data, LAMBDA r :
                       /\ r.birthday # None
                       /\ ComingOccurrences(QueryToday.date, r.birthday[1].date) # {}
                       /\ DaysUntilNext(QueryToday.date, r.birthday[1].date) <= QueryDays))
                 |-> SelectSeq(data, LAMBDA r :
                       /\ r.birthday # None
                       /\ ComingOccurrences(QueryToday.date, r.birthday[1].date) # {}
                       /\ DaysUntilNext(QueryToday.date, r.birthday[1].date) <= QueryDays)[j].name]

\* C9: a successful change replaces the first phone in place: same length,
\* the new phone first, the later entries as they were.
C9_ChangeReplacesFirst ==
    [][(op' = "change_contact"
          /\ out'.text = "Contact phone number updated successfully."
          /\ Len(PhonesOf(data, args'[1])) >= 1) =>
          PhonesOf(data', args'[1]) = [PhonesOf(data, args'[1]) EXCEPT ![1] = args'[2]]]_vars

\* C10: a command answered with an error message leaves the book as it was.
\* So no record ever has an empty phone list.
C10_ErrorsChangeNothing ==
    /\ [][out'.text \in ErrorMessages => data' = data]_vars
    /\ [](\A i \in 1..Len(data) : Len(data[i].phones) > 0)

=============================================================================
